---- MODULE Spec2Model ----
(***************************************************************************)
(* Model of src/fibre_exporter.py: the FIBRE USDT metrics exporter.        *)
(*                                                                         *)
(* The state is the FibreExporter object (its config, its FibreMetrics,    *)
(* the position of run()), the two HTTP servers run() starts, and the last *)
(* answer each HTTP handler gave.  One action per step of run(), per       *)
(* perf-buffer callback and per HTTP request.                              *)
(*                                                                         *)
(* Library calls the code does not guard (USDT(), BPF(), HTTPServer()) are *)
(* taken to return; a failure is modelled wherever the code has a handler  *)
(* for it (the try/except around enable_probe, the try/finally around the  *)
(* polling loop).                                                          *)
(*                                                                         *)
(* Strings that the code converts (the winner and peer buffers, the        *)
(* decoded Basic credentials) are sequences, of byte values and of         *)
(* one-character strings; Python's None for an Optional[str] is NoneStr.   *)
(* Histogram sums are kept in the unit of the event field (us, ns); the    *)
(* code divides by a constant before observing.                            *)
(***************************************************************************)
EXTENDS Integers, Sequences, FiniteSets, TLC

VARIABLES
    pc,             \* position of run(): see the actions below
    config_pid,     \* ExporterConfig.pid
    auth_username,  \* ExporterConfig.metrics_auth_username
    auth_password,  \* ExporterConfig.metrics_auth_password
    path_check,     \* outcome of the /proc/<pid>/exe comparison
    probe_i,        \* index of the for loop of _attach_probes
    attempts,       \* enable_probe calls made, per probe
    enabled,        \* probes whose enable_probe returned
    attached_count, \* local attached_count of _attach_probes / run
    bpf_loaded,     \* self.bpf is not None
    exit_status,    \* process exit status, <<>> while running
    metrics_server, \* which metrics server run() started
    health_server,  \* health server started
    metrics,        \* the FibreMetrics container
    polled,         \* outcomes of perf_buffer_poll so far, in order
    health_resp,    \* last answer of HealthCheckHandler.do_GET
    metrics_resp,   \* last answer of the metrics endpoint
    todo,           \* metric writes the running _handle_event call has left
    cfg             \* main(): the configuration sources and the config built

vars == << pc, config_pid, auth_username, auth_password, path_check, probe_i,
           attempts, enabled, attached_count, bpf_loaded, exit_status,
           metrics_server, health_server, metrics, polled, health_resp,
           metrics_resp, todo, cfg >>

----------------------------------------------------------------------------
\* Bounds of the model

\* perf_buffer_poll outcomes (records and timeouts) taken per run
MaxEvents == 2

\* the cap on pending race records of spec section 4.3
MaxPending == 1

\* poll timeouts after which the wait window of spec section 4.3 is over
ExpiryPolls == 1

----------------------------------------------------------------------------
\* Values

None == "None"

NoneStr == << "None" >>

NUL == 0

\* ASCII codes of "F" and "B", the two prefixes _handle_block_delivery tests
ChF == 70

ChB == 66

Pids == { "4242" }

Heights == { 100, 101 }

\* the probes of _attach_probes, in the order of fibre_probes + validation_probes
KnownProbes ==
    << "block_reconstructed", "block_send_start", "block_race_winner",
       "block_connected" >>

EVENT_TYPE_NAMES ==
    [ t \in { 1, 2, 3, 10 } |->
        CASE t = 1 -> "block_reconstructed"
          [] t = 2 -> "block_send_start"
          [] t = 3 -> "block_delivery"
          [] t = 10 -> "block_connected" ]

EventTypeLabels == { EVENT_TYPE_NAMES[t] : t \in DOMAIN EVENT_TYPE_NAMES } \cup { "unknown" }

Mechanisms == { "fibre_udp", "bip152_cmpct", "other" }

HistogramNames ==
    { "block_reconstruction_time", "chunks_used", "block_connection_time",
      "block_tx_count" }

----------------------------------------------------------------------------
\* String conversions of _handle_block_delivery

\* bytes.decode("utf-8", errors="ignore") on buffers of ASCII bytes and lone
\* bytes >= 128: the undecodable bytes are dropped
Utf8Ignore(buf) == SelectSeq(buf, LAMBDA b : b < 128)

RECURSIVE RStripNul(_)
\* str.rstrip("\x00"): trailing NULs removed, nothing else
RStripNul(s) ==
    IF s # << >> /\ s[Len(s)] = NUL THEN RStripNul(SubSeq(s, 1, Len(s) - 1)) ELSE s

\* event.winner as the whole buffer, NULs included
CharArrayRaw(buf) == buf

RECURSIVE CharArrayValue(_)
\* reading a char[N] field of the ctypes structure that
\* self.bpf["events"].event(data) builds: the bytes before the first NUL
CharArrayValue(buf) ==
    IF buf = << >> \/ buf[1] = NUL THEN << >>
    ELSE << buf[1] >> \o CharArrayValue(Tail(buf))

\* event.winner.decode("utf-8", errors="ignore").rstrip("\x00")
DecodeStr(buf) == RStripNul(Utf8Ignore(CharArrayValue(buf)))

\* a prefix test that ignores case (ChF + 32 is "f", ChB + 32 is "b")
ClassifyIgnoreCase(s) ==
    IF s # << >> /\ s[1] \in { ChF, ChF + 32 } THEN "fibre_udp"
    ELSE IF s # << >> /\ s[1] \in { ChB, ChB + 32 } THEN "bip152_cmpct"
    ELSE "other"

\* the startswith chain of _handle_block_delivery
Classify(s) ==
    IF s # << >> /\ s[1] = ChF THEN "fibre_udp"
    ELSE IF s # << >> /\ s[1] = ChB THEN "bip152_cmpct"
    ELSE "other"

----------------------------------------------------------------------------
\* Event records: struct event_t of BPF_PROGRAM

NulBuf == << NUL, NUL >>

ZeroEvent ==
    [ type |-> 0, duration_us |-> 0, chunks_used |-> 0, chunks_recvd |-> 0,
      height |-> 0, udp_ns |-> 0, cmpct_ns |-> 0, winner |-> NulBuf,
      peer |-> NulBuf ]

\* perf_buffer_poll(timeout=1000) returning without a record
PollTimedOut == [ ZeroEvent EXCEPT !.type = -1 ]

\* "F", "B", "", "f", "bF" and "XF" (102, 98 and 88 are "f", "b" and "X")
WinnerBufs ==
    { << ChF, NUL >>, << ChB, NUL >>, NulBuf, << 102, NUL >>, << 98, ChF >>,
      << 88, ChF >> }

\* "p" and "qp" (112 and 113 are "p" and "q")
PeerBufs == { << 112, NUL >>, << 113, 112 >> }

\* a NUL before "F", and a byte that is no UTF-8 (255) before "F" and after "B"
OddWinnerBufs == { << NUL, ChF >>, << 255, ChF >>, << ChB, 255 >> }

\* a NUL before "p", a byte that is no UTF-8 before "p", and the control
\* character BEL (7) before "p"
OddPeerBufs == { << NUL, 112 >>, << 255, 112 >>, << 7, 112 >> }

PeerLabels == { DecodeStr(b) : b \in PeerBufs \cup OddPeerBufs \cup { NulBuf } }

\* trace_block_reconstructed
ReconstructedEvents ==
    { [ ZeroEvent EXCEPT !.type = 1, !.duration_us = d, !.chunks_used = c[1],
                         !.chunks_recvd = c[2] ] :
        d \in { -1, 2000 }, c \in { << 0, 0 >>, << 3, 5 >> } }

\* trace_block_send_start
SendStartEvents == { [ ZeroEvent EXCEPT !.type = 2 ] }

\* trace_block_delivery: height, winner and peer; the latency fields stay zero
WinnerEvents ==
    { [ ZeroEvent EXCEPT !.type = 3, !.height = h, !.winner = w, !.peer = p ] :
        h \in Heights, w \in WinnerBufs, p \in PeerBufs }

\* a delivery record that carries the two latencies of event_t and no winner
TimingEvents ==
    { [ ZeroEvent EXCEPT !.type = 3, !.height = h, !.udp_ns = l[1],
                         !.cmpct_ns = l[2] ] :
        h \in Heights, l \in { << 50, 80 >>, << 50, 50 >> } }

\* a delivery record that carries winner and latencies together
JoinedEvents ==
    { [ ZeroEvent EXCEPT !.type = 3, !.height = 100, !.winner = w,
                         !.peer = << 112, NUL >>, !.udp_ns = 50,
                         !.cmpct_ns = 50 ] :
        w \in { << ChF, NUL >>, << ChB, NUL >> } }

\* trace_block_connected: tx_count in udp_ns, connection_time_ns in duration_us
ConnectedEvents ==
    { [ ZeroEvent EXCEPT !.type = 10, !.height = h, !.udp_ns = t,
                         !.duration_us = d ] :
        h \in Heights, t \in { 0, 7 }, d \in { -1, 5000 } }

\* delivery records whose buffers hold more than a NUL-terminated ASCII string
OddBufferEvents ==
    { [ ZeroEvent EXCEPT !.type = 3, !.height = 100, !.winner = w, !.peer = p ] :
        w \in OddWinnerBufs, p \in OddPeerBufs }

\* a record whose tag is none of the enum event_type
UnknownEvents == { [ ZeroEvent EXCEPT !.type = 4 ] }

Events ==
    ReconstructedEvents \cup SendStartEvents \cup WinnerEvents
        \cup TimingEvents \cup JoinedEvents \cup ConnectedEvents
        \cup UnknownEvents \cup OddBufferEvents

\* perf_buffer_poll delivering data that self.bpf["events"].event(data) refuses
DecodeFailed == [ ZeroEvent EXCEPT !.type = -2 ]

\* records of every kind, a few of each: the ones whose order is permuted
OrderEvents ==
    ReconstructedEvents \cup SendStartEvents \cup TimingEvents
        \cup JoinedEvents \cup ConnectedEvents \cup UnknownEvents

\* the records the lifecycle and HTTP specifications poll
FewEvents ==
    { [ ZeroEvent EXCEPT !.type = 2 ],
      [ ZeroEvent EXCEPT !.type = 10, !.height = 100, !.udp_ns = 7,
                         !.duration_us = 5000 ] }

----------------------------------------------------------------------------
\* FibreMetrics

EmptyHistogram == [ count |-> 0, sum |-> 0 ]

\* an observe that keeps the last value as the sum
ObserveLast(h, v) == [ count |-> h.count + 1, sum |-> v ]

\* Histogram.observe
Observe(h, v) == [ count |-> h.count + 1, sum |-> h.sum + v ]

\* a gauge that keeps the highest value it was given
GaugeSetMax(old, v) == IF old # << >> /\ old[1] > v THEN old ELSE << v >>

\* Gauge.set on a labelled series: the value given replaces the old one
GaugeSet(old, v) == << v >>

\* FibreMetrics(): counters and unlabelled gauges at 0, labelled series absent
InitMetrics ==
    [ blocks_reconstructed |-> 0,
      block_reconstruction_time |-> EmptyHistogram,
      chunks_used |-> EmptyHistogram,
      chunks_received |-> 0,
      chunks_used_total |-> 0,
      blocks_sent |-> 0,
      block_deliveries |-> [ l \in Mechanisms \X PeerLabels |-> 0 ],
      last_block_height |-> << >>,
      blocks_connected |-> 0,
      block_connection_time |-> EmptyHistogram,
      block_tx_count |-> EmptyHistogram,
      exporter_up |-> 0,
      exporter_events_total |-> [ l \in EventTypeLabels |-> 0 ],
      exporter_errors_total |-> [ l \in { "event_processing" } |-> 0 ],
      exporter_probes_attached |-> 0 ]

----------------------------------------------------------------------------
\* Event handlers of FibreExporter, as functions of the metrics container

\* a handler that adds each chunk field to the other counter
HandleBlockReconstructedSwapped(m, e) ==
    [ m EXCEPT !.blocks_reconstructed = @ + 1,
               !.block_reconstruction_time = Observe(@, e.duration_us),
               !.chunks_used = Observe(@, e.chunks_used),
               !.chunks_used_total = @ + e.chunks_recvd,
               !.chunks_received = @ + e.chunks_used ]

\* _handle_block_reconstructed
HandleBlockReconstructed(m, e) ==
    [ m EXCEPT !.blocks_reconstructed = @ + 1,
               !.block_reconstruction_time = Observe(@, e.duration_us),
               !.chunks_used = Observe(@, e.chunks_used),
               !.chunks_used_total = @ + e.chunks_used,
               !.chunks_received = @ + e.chunks_recvd ]

HandleBlockSendStart(m, e) == [ m EXCEPT !.blocks_sent = @ + 1 ]

HandleBlockDelivery(m, e) ==
    LET winner_str == DecodeStr(e.winner)
        peer_str == DecodeStr(e.peer)
        mechanism == Classify(winner_str)
    IN  [ m EXCEPT !.block_deliveries[<< mechanism, peer_str >>] = @ + 1,
                   !.last_block_height = GaugeSet(@, e.height) ]

HandleBlockConnected(m, e) ==
    LET connection_time_ns == e.duration_us
        tx_count == e.udp_ns
    IN  [ m EXCEPT !.blocks_connected = @ + 1,
                   !.last_block_height = GaugeSet(@, e.height),
                   !.block_connection_time =
                       IF connection_time_ns > 0
                       THEN Observe(@, connection_time_ns) ELSE @,
                   !.block_tx_count =
                       IF tx_count > 0 THEN Observe(@, tx_count) ELSE @ ]

\* an except clause that swallows the exception without counting it
HandleEventExceptSilent(m) == m

\* the except clause of _handle_event
HandleEventExcept(m) ==
    [ m EXCEPT !.exporter_errors_total["event_processing"] = @ + 1 ]

\* a lookup that files an unlisted tag under the first known name
EventTypeNameCoerced(t) ==
    IF t \in DOMAIN EVENT_TYPE_NAMES THEN EVENT_TYPE_NAMES[t]
    ELSE "block_reconstructed"

\* EVENT_TYPE_NAMES.get(event.type, "unknown")
EventTypeName(t) ==
    IF t \in DOMAIN EVENT_TYPE_NAMES THEN EVENT_TYPE_NAMES[t] ELSE "unknown"

\* a handler that lets a record of no known type pass uncounted
HandleEventKnownOnly(m, e) ==
    LET counted ==
            [ m EXCEPT !.exporter_events_total[EventTypeName(e.type)] = @ + 1 ]
    IN  CASE e.type = 1 -> HandleBlockReconstructed(counted, e)
          [] e.type = 2 -> HandleBlockSendStart(counted, e)
          [] e.type = 3 -> HandleBlockDelivery(counted, e)
          [] e.type = 10 -> HandleBlockConnected(counted, e)
          [] OTHER -> m

\* _handle_event, the try block
HandleEvent(m, e) ==
    LET counted ==
            [ m EXCEPT !.exporter_events_total[EventTypeName(e.type)] = @ + 1 ]
    IN  CASE e.type = 1 -> HandleBlockReconstructed(counted, e)
          [] e.type = 2 -> HandleBlockSendStart(counted, e)
          [] e.type = 3 -> HandleBlockDelivery(counted, e)
          [] e.type = 10 -> HandleBlockConnected(counted, e)
          [] OTHER -> counted

\* One write to one value of the registry.  Histogram.observe is two of them,
\* the sum and then the bucket the count is read from: each value has a lock
\* of its own and the handlers take no lock around the pair.
IncWrite(metric, amount) ==
    [ op |-> "inc", metric |-> metric, key |-> << >>, value |-> amount ]

SeriesIncWrite(metric, key) ==
    [ op |-> "inc_series", metric |-> metric, key |-> key, value |-> 1 ]

SetWrite(metric, v) ==
    [ op |-> "set", metric |-> metric, key |-> << >>, value |-> v ]

ObserveWrites(metric, v) ==
    << [ op |-> "observe_sum", metric |-> metric, key |-> << >>, value |-> v ],
       [ op |-> "observe_bucket", metric |-> metric, key |-> << >>, value |-> 1 ] >>

\* the metric calls of _handle_event for record e, statement by statement
Writes(e) ==
    << SeriesIncWrite("exporter_events_total", << EventTypeName(e.type) >>) >>
    \o CASE e.type = 1 ->
               << IncWrite("blocks_reconstructed", 1) >>
               \o ObserveWrites("block_reconstruction_time", e.duration_us)
               \o ObserveWrites("chunks_used", e.chunks_used)
               \o << IncWrite("chunks_used_total", e.chunks_used),
                     IncWrite("chunks_received", e.chunks_recvd) >>
         [] e.type = 2 -> << IncWrite("blocks_sent", 1) >>
         [] e.type = 3 ->
               << SeriesIncWrite("block_deliveries",
                                 << Classify(DecodeStr(e.winner)),
                                    DecodeStr(e.peer) >>),
                  SetWrite("last_block_height", e.height) >>
         [] e.type = 10 ->
               << IncWrite("blocks_connected", 1),
                  SetWrite("last_block_height", e.height) >>
               \o (IF e.duration_us > 0
                   THEN ObserveWrites("block_connection_time", e.duration_us)
                   ELSE << >>)
               \o (IF e.udp_ns > 0
                   THEN ObserveWrites("block_tx_count", e.udp_ns)
                   ELSE << >>)
         [] OTHER -> << >>

\* the effect of one write on the metrics container
ApplyWrite(m, w) ==
    CASE w.op = "inc" -> [ m EXCEPT ![w.metric] = @ + w.value ]
      [] w.op = "inc_series" /\ w.metric = "exporter_events_total" ->
            [ m EXCEPT ![w.metric][w.key[1]] = @ + w.value ]
      [] w.op = "inc_series" /\ w.metric # "exporter_events_total" ->
            [ m EXCEPT ![w.metric][w.key] = @ + w.value ]
      [] w.op = "set" -> [ m EXCEPT ![w.metric] = GaugeSet(@, w.value) ]
      [] w.op = "observe_sum" -> [ m EXCEPT ![w.metric].sum = @ + w.value ]
      [] w.op = "observe_bucket" -> [ m EXCEPT ![w.metric].count = @ + w.value ]

\* what one perf_buffer_poll outcome does to the metrics
ApplyOutcome(m, o) ==
    IF o = PollTimedOut THEN m
    ELSE IF o = DecodeFailed THEN HandleEventExcept(m)
    ELSE HandleEvent(m, o)

RECURSIVE ApplyAll(_, _)
\* the polling loop of run() over the outcomes of seq, in order
ApplyAll(m, seq) ==
    IF seq = << >> THEN m ELSE ApplyAll(ApplyOutcome(m, Head(seq)), Tail(seq))

----------------------------------------------------------------------------
\* HTTP handlers

\* truth value of an Optional[str]
Truthy(s) == s # NoneStr /\ s # << >>

\* a test that takes one configured credential as enough
HasMetricsAuthEither(username, password) == Truthy(username) \/ Truthy(password)

\* ExporterConfig.has_metrics_auth
HasMetricsAuth(username, password) == Truthy(username) /\ Truthy(password)

\* index of the first ":" of s, 0 when there is none
FirstColon(s) ==
    IF \E i \in 1..Len(s) : s[i] = ":"
    THEN CHOOSE i \in 1..Len(s) :
            s[i] = ":" /\ \A j \in 1..(i - 1) : s[j] # ":"
    ELSE 0

\* a header check that compares the username only
CheckAuthUserOnly(username, password, header) ==
    IF ~Truthy(username) \/ ~Truthy(password) THEN TRUE
    ELSE IF ~header.present THEN FALSE
    ELSE IF header.scheme # "Basic " THEN FALSE
    ELSE IF ~header.decodes THEN FALSE
    ELSE IF FirstColon(header.text) = 0 THEN FALSE
    ELSE SubSeq(header.text, 1, FirstColon(header.text) - 1) = username

\* MetricsHandler._check_auth; header.decodes says whether b64decode and the
\* utf-8 decode return, header.text is what they return
CheckAuth(username, password, header) ==
    IF ~Truthy(username) \/ ~Truthy(password) THEN TRUE
    ELSE IF ~header.present THEN FALSE
    ELSE IF header.scheme # "Basic " THEN FALSE
    ELSE IF ~header.decodes THEN FALSE
    ELSE IF FirstColon(header.text) = 0 THEN FALSE
    ELSE LET i == FirstColon(header.text)
             user == SubSeq(header.text, 1, i - 1)
             pass == SubSeq(header.text, i + 1, Len(header.text))
         IN  user = username /\ pass = password

SendAuthRequired ==
    [ status |-> 401, realm |-> << "FIBRE Metrics" >>, body |-> "Unauthorized",
      payload |-> << >> ]

\* MetricsHandler.do_GET; snapshot is generate_latest(REGISTRY)
MetricsHandlerGET(username, password, req, snapshot) ==
    IF req.path = "/metrics"
    THEN IF ~CheckAuth(username, password, req.header)
         THEN SendAuthRequired
         ELSE [ status |-> 200, realm |-> << >>, body |-> "metrics",
                payload |-> << snapshot >> ]
    ELSE [ status |-> 404, realm |-> << >>, body |-> "Not Found",
           payload |-> << >> ]

\* the server of prometheus_client.start_http_server answering GET /metrics
PlainServerGET(snapshot) ==
    [ status |-> 200, realm |-> << >>, body |-> "metrics",
      payload |-> << snapshot >> ]

\* a health handler that reports a degraded attach
HealthGETDegraded(path) ==
    IF path \in { "/health", "/ready" }
    THEN IF attached_count < Len(KnownProbes)
         THEN [ status |-> 503, body |-> "Degraded" ]
         ELSE [ status |-> 200, body |-> "OK" ]
    ELSE [ status |-> 404, body |-> "Not Found" ]

\* HealthCheckHandler.do_GET
HealthGET(path) ==
    IF path \in { "/health", "/ready" }
    THEN [ status |-> 200, body |-> "OK" ]
    ELSE [ status |-> 404, body |-> "Not Found" ]

HealthPaths == { "/health", "/ready", "/", "/metrics", "/health/" }

NoHeader == [ present |-> FALSE, scheme |-> "", decodes |-> FALSE, text |-> << >> ]

CredTexts ==
    { << "u", ":", "p" >>, << "u", ":", "x" >>, << "x", ":", "p" >>,
      << "u", "p" >>, << "u", ":", "p", ":", "x" >> }

Headers ==
    { NoHeader }
        \cup { [ present |-> TRUE, scheme |-> "Basic ", decodes |-> TRUE,
                 text |-> t ] : t \in CredTexts }
        \cup { [ present |-> TRUE, scheme |-> s, decodes |-> d,
                 text |-> << "u", ":", "p" >> ] :
                 s \in { "Basic ", "basic ", "Bearer " }, d \in BOOLEAN }

Requests == [ path : { "/metrics", "/" }, header : Headers ]

Usernames == { NoneStr, << >>, << "u" >> }

Passwords == { NoneStr, << >>, << "p" >>, << "p", ":", "x" >> }

----------------------------------------------------------------------------
\* ExporterConfig and main(): three settings, one with a built-in default that
\* differs from None (node_name) and two without (bitcoind_path,
\* metrics_auth_username).  A source that does not give a setting holds None.

Settings == { "bitcoind_path", "node_name", "metrics_auth_username" }

\* the defaults of the fields of ExporterConfig
ConfigDefault ==
    [ bitcoind_path |-> None, node_name |-> "localhost",
      metrics_auth_username |-> None ]

\* what each source may give for each setting
CommandLines ==
    [ bitcoind_path : { None, "/cli/bitcoind" },
      node_name : { None, "localhost", "cli-node" },
      metrics_auth_username : { None, "cli-user" } ]

Environments ==
    [ bitcoind_path : { None, "/env/bitcoind" },
      node_name : { None, "env-node" },
      metrics_auth_username : { None, "env-user" } ]

ConfigFiles ==
    [ bitcoind_path : { None, "/file/bitcoind" },
      node_name : { None, "file-node" },
      metrics_auth_username : { None, "file-user" } ]

\* parse_args(): the defaults of argparse fill the options not given
ParseArgs(cli) ==
    [ cli EXCEPT !.node_name = IF @ = None THEN "localhost" ELSE @ ]

\* ExporterConfig.from_args
FromArgs(args) ==
    [ bitcoind_path |-> args.bitcoind_path, node_name |-> args.node_name,
      metrics_auth_username |-> args.metrics_auth_username ]

\* ExporterConfig.from_yaml: data.get(key, default)
FromYaml(data) ==
    [ bitcoind_path |-> data.bitcoind_path,
      node_name |-> IF data.node_name = None THEN "localhost" ELSE data.node_name,
      metrics_auth_username |-> data.metrics_auth_username ]

\* ExporterConfig.from_env: os.environ.get(name, base value)
FromEnv(env, base_config) ==
    [ k \in Settings |-> IF env[k] # None THEN env[k] ELSE base_config[k] ]

\* truth value of an option of the argparse namespace
TruthyValue(v) == v # None /\ v # ""

\* main(): the tests of the "CLI args override everything" block
CliGiven(args, k) ==
    IF k = "node_name" THEN args.node_name # "localhost"
    ELSE TruthyValue(args[k])

\* main(): the "CLI args override everything" block
CliOverrides(args, config) ==
    [ k \in Settings |-> IF CliGiven(args, k) THEN args[k] ELSE config[k] ]

\* main(): args = parse_args()
MainParseArgs ==
    /\ pc = "main"
    /\ cfg.stage = "start"
    /\ cfg' = [ cfg EXCEPT !.stage = "parsed", !.args = << ParseArgs(cfg.cli) >> ]
    /\ UNCHANGED << pc, config_pid, auth_username, auth_password, path_check,
                    probe_i, attempts, enabled, attached_count, bpf_loaded,
                    exit_status, metrics_server, health_server, metrics,
                    polled, health_resp, metrics_resp, todo >>

\* main(): the config from the file or from the arguments, then from_env
MainLoadConfig ==
    /\ pc = "main"
    /\ cfg.stage = "parsed"
    /\ cfg' = [ cfg EXCEPT
                  !.stage = "loaded",
                  !.config =
                      IF cfg.file # << >>
                      THEN << FromEnv(cfg.env, FromYaml(cfg.file[1])) >>
                      ELSE << FromEnv(cfg.env, FromArgs(cfg.args[1])) >> ]
    /\ UNCHANGED << pc, config_pid, auth_username, auth_password, path_check,
                    probe_i, attempts, enabled, attached_count, bpf_loaded,
                    exit_status, metrics_server, health_server, metrics,
                    polled, health_resp, metrics_resp, todo >>

\* main(): the "CLI args override everything" block
MainCliOverrides ==
    /\ pc = "main"
    /\ cfg.stage = "loaded"
    /\ cfg' = [ cfg EXCEPT
                  !.stage = "overridden",
                  !.config = << CliOverrides(cfg.args[1], cfg.config[1]) >> ]
    /\ UNCHANGED << pc, config_pid, auth_username, auth_password, path_check,
                    probe_i, attempts, enabled, attached_count, bpf_loaded,
                    exit_status, metrics_server, health_server, metrics,
                    polled, health_resp, metrics_resp, todo >>

\* main(): sys.exit(1) without a bitcoind path, FibreExporter(config) with one
MainValidate ==
    /\ pc = "main"
    /\ cfg.stage = "overridden"
    /\ IF TruthyValue(cfg.config[1].bitcoind_path)
       THEN /\ cfg' = [ cfg EXCEPT !.stage = "constructed" ]
            /\ pc' = "start"
            /\ UNCHANGED exit_status
       ELSE /\ cfg' = [ cfg EXCEPT !.stage = "refused" ]
            /\ pc' = "exit"
            /\ exit_status' = << 1 >>
    /\ UNCHANGED << config_pid, auth_username, auth_password, path_check,
                    probe_i, attempts, enabled, attached_count, bpf_loaded,
                    metrics_server, health_server, metrics,
                    polled, health_resp, metrics_resp, todo >>

----------------------------------------------------------------------------
\* run() and _attach_probes()

Alive == pc \notin { "done", "exit" }

\* the for loop that stops at the first probe that fails to attach
NextProbeStopOnFailure(i, ok) == IF ok THEN i + 1 ELSE Len(KnownProbes) + 1

\* the loop variable after one iteration: the except clause falls through
NextProbe(i, ok) == i + 1

\* a run that treats a partial attach as fatal
NoProbesOrPartial(count) == count < Len(KnownProbes)

\* a test that never finds the attach phase empty
NoProbesIgnored(count) == FALSE

\* the test "attached_count == 0" of _attach_probes and of run()
NoProbes(count) == count = 0

\* the value run() gives the probes-attached gauge
GaugeOfAttached(count) == count

\* a run that starts the servers whatever attached
NeverFatal(count) == FALSE

\* whether run() takes the fatal branch
RunIsFatal(count) == NoProbes(count)

\* run(): PID auto-detection, sys.exit(1) when nothing is found
DetectPid ==
    /\ pc = "start"
    /\ \/ /\ config_pid # None
          /\ pc' = "verify"
          /\ UNCHANGED << config_pid, exit_status >>
       \/ /\ config_pid = None
          /\ \E detected \in Pids :
                /\ config_pid' = detected
                /\ pc' = "verify"
                /\ UNCHANGED exit_status
       \/ /\ config_pid = None
          /\ pc' = "exit"
          /\ exit_status' = << 1 >>
          /\ UNCHANGED config_pid
    /\ UNCHANGED << auth_username, auth_password, path_check, probe_i,
                    attempts, enabled, attached_count, bpf_loaded,
                    metrics_server, health_server, metrics, polled,
                    health_resp, metrics_resp,
                    todo, cfg >>

\* a path check that ends the run when /proc/<pid>/exe cannot be read
PathUnreadableIsFatal(outcome) == outcome = "oserror"

\* a path check that ends the run when the binary is another one
PathMismatchIsFatal(outcome) == outcome = "mismatch"

\* whether the binary path check ends the run: each of its three branches
\* only logs
PathCheckIsFatal(outcome) == FALSE

\* run(): the binary path check, a log line in each of its three outcomes
VerifyBinaryPath ==
    /\ pc = "verify"
    /\ \E outcome \in { "match", "mismatch", "oserror" } :
          /\ path_check' = outcome
          /\ pc' = IF PathCheckIsFatal(outcome) THEN "exit" ELSE "attach"
          /\ exit_status' =
                IF PathCheckIsFatal(outcome) THEN << 1 >> ELSE exit_status
    /\ UNCHANGED << config_pid, auth_username, auth_password, probe_i,
                    attempts, enabled, attached_count, bpf_loaded,
                    metrics_server, health_server, metrics, polled,
                    health_resp, metrics_resp,
                    todo, cfg >>

\* _attach_probes(): one iteration of the for loop, enable_probe returns or raises
EnableProbe ==
    /\ pc = "attach"
    /\ probe_i <= Len(KnownProbes)
    /\ \E ok \in BOOLEAN :
          /\ attempts' = [ attempts EXCEPT ![KnownProbes[probe_i]] = @ + 1 ]
          /\ enabled' = IF ok THEN enabled \cup { KnownProbes[probe_i] } ELSE enabled
          /\ attached_count' = IF ok THEN attached_count + 1 ELSE attached_count
          /\ probe_i' = NextProbe(probe_i, ok)
    /\ UNCHANGED << pc, config_pid, auth_username, auth_password, path_check,
                    bpf_loaded, exit_status, metrics_server, health_server,
                    metrics, polled, health_resp, metrics_resp,
                    todo, cfg >>

\* _attach_probes(): after the loop, return 0 or load the BPF program
AttachReturn ==
    /\ pc = "attach"
    /\ probe_i > Len(KnownProbes)
    /\ bpf_loaded' = ~NoProbes(attached_count)
    /\ pc' = "attached"
    /\ UNCHANGED << config_pid, auth_username, auth_password, path_check,
                    probe_i, attempts, enabled, attached_count, exit_status,
                    metrics_server, health_server, metrics, polled,
                    health_resp, metrics_resp,
                    todo, cfg >>

\* run(): attached_count == 0, exporter_up.set(0) and sys.exit(1)
RunNoProbes ==
    /\ pc = "attached"
    /\ RunIsFatal(attached_count)
    /\ metrics' = [ metrics EXCEPT !.exporter_up = 0 ]
    /\ exit_status' = << 1 >>
    /\ pc' = "exit"
    /\ UNCHANGED << config_pid, auth_username, auth_password, path_check,
                    probe_i, attempts, enabled, attached_count, bpf_loaded,
                    metrics_server, health_server, polled, health_resp,
                    metrics_resp,
                    todo, cfg >>

\* run(): exporter_probes_attached.set(attached_count)
RunSetProbesAttached ==
    /\ pc = "attached"
    /\ ~RunIsFatal(attached_count)
    /\ metrics' = [ metrics EXCEPT
                      !.exporter_probes_attached = GaugeOfAttached(attached_count) ]
    /\ pc' = "start_metrics"
    /\ UNCHANGED << config_pid, auth_username, auth_password, path_check,
                    probe_i, attempts, enabled, attached_count, bpf_loaded,
                    exit_status, metrics_server, health_server, polled,
                    health_resp, metrics_resp,
                    todo, cfg >>

\* run(): start_metrics_server with the credentials, or start_http_server
StartMetricsServer ==
    /\ pc = "start_metrics"
    /\ metrics_server' =
          IF HasMetricsAuth(auth_username, auth_password)
          THEN "basic_auth" ELSE "plain"
    /\ pc' = "start_health"
    /\ UNCHANGED << config_pid, auth_username, auth_password, path_check,
                    probe_i, attempts, enabled, attached_count, bpf_loaded,
                    exit_status, health_server, metrics, polled, health_resp,
                    metrics_resp,
                    todo, cfg >>

\* run(): start_health_server
StartHealthServer ==
    /\ pc = "start_health"
    /\ health_server' = TRUE
    /\ pc' = "set_up"
    /\ UNCHANGED << config_pid, auth_username, auth_password, path_check,
                    probe_i, attempts, enabled, attached_count, bpf_loaded,
                    exit_status, metrics_server, metrics, polled, health_resp,
                    metrics_resp,
                    todo, cfg >>

\* run(): exporter_up.set(1), then the polling loop is entered
SetExporterUp ==
    /\ pc = "set_up"
    /\ metrics' = [ metrics EXCEPT !.exporter_up = 1 ]
    /\ pc' = "poll"
    /\ UNCHANGED << config_pid, auth_username, auth_password, path_check,
                    probe_i, attempts, enabled, attached_count, bpf_loaded,
                    exit_status, metrics_server, health_server, polled,
                    health_resp, metrics_resp,
                    todo, cfg >>

\* perf_buffer_poll delivers record e to _handle_event
Poll(e) ==
    /\ pc = "poll"
    /\ Len(polled) < MaxEvents
    /\ metrics' = HandleEvent(metrics, e)
    /\ polled' = Append(polled, e)
    /\ UNCHANGED << pc, config_pid, auth_username, auth_password, path_check,
                    probe_i, attempts, enabled, attached_count, bpf_loaded,
                    exit_status, metrics_server, health_server, health_resp,
                    metrics_resp,
                    todo, cfg >>

PollFew == \E e \in FewEvents : Poll(e)

PollAny == \E e \in Events : Poll(e)

PollOrdered == \E e \in OrderEvents : Poll(e)

\* perf_buffer_poll(timeout=1000) returns with no record
PollTimeout ==
    /\ pc = "poll"
    /\ Len(polled) < MaxEvents
    /\ polled' = Append(polled, PollTimedOut)
    /\ UNCHANGED << pc, config_pid, auth_username, auth_password, path_check,
                    probe_i, attempts, enabled, attached_count, bpf_loaded,
                    exit_status, metrics_server, health_server, metrics,
                    health_resp, metrics_resp,
                    todo, cfg >>

\* perf_buffer_poll delivers data whose decoding raises inside _handle_event
PollDecodeError ==
    /\ pc = "poll"
    /\ Len(polled) < MaxEvents
    /\ metrics' = HandleEventExcept(metrics)
    /\ polled' = Append(polled, DecodeFailed)
    /\ UNCHANGED << pc, config_pid, auth_username, auth_password, path_check,
                    probe_i, attempts, enabled, attached_count, bpf_loaded,
                    exit_status, metrics_server, health_server, health_resp,
                    metrics_resp, todo, cfg >>

\* a finally clause that leaves the gauge as it is
RunFinallySkipped(m) == m

\* run(): the finally clause of the polling loop, exporter_up.set(0)
RunFinally(m) == [ m EXCEPT !.exporter_up = 0 ]

\* the records the statement-by-statement specification polls
StepEvents ==
    { [ ZeroEvent EXCEPT !.type = 1, !.duration_us = 2000, !.chunks_used = 3,
                         !.chunks_recvd = 5 ],
      [ ZeroEvent EXCEPT !.type = 3, !.height = 100, !.winner = << ChF, NUL >>,
                         !.peer = << 112, NUL >> ],
      [ ZeroEvent EXCEPT !.type = 10, !.height = 101, !.udp_ns = 7,
                         !.duration_us = 5000 ] }

\* perf_buffer_poll calls _handle_event with a record: the handler starts
HandlerBegin ==
    /\ pc = "poll"
    /\ todo = << >>
    /\ Len(polled) < MaxEvents
    /\ \E e \in StepEvents :
          /\ polled' = Append(polled, e)
          /\ todo' = Writes(e)
    /\ UNCHANGED << pc, config_pid, auth_username, auth_password, path_check,
                    probe_i, attempts, enabled, attached_count, bpf_loaded,
                    exit_status, metrics_server, health_server, metrics,
                    health_resp, metrics_resp, cfg >>

\* the running handler makes its next metric call
HandlerWrite ==
    /\ pc = "poll"
    /\ todo # << >>
    /\ metrics' = ApplyWrite(metrics, Head(todo))
    /\ todo' = Tail(todo)
    /\ UNCHANGED << pc, config_pid, auth_username, auth_password, path_check,
                    probe_i, attempts, enabled, attached_count, bpf_loaded,
                    exit_status, metrics_server, health_server, polled,
                    health_resp, metrics_resp, cfg >>

\* the metrics server thread answers GET /metrics with generate_latest(REGISTRY)
\* while the main thread is wherever it is
Scrape ==
    /\ Alive
    /\ metrics_server = "plain"
    /\ metrics_resp' =
          << [ req |-> [ path |-> "/metrics", header |-> NoHeader ],
               resp |-> PlainServerGET(metrics) ] >>
    /\ UNCHANGED << pc, config_pid, auth_username, auth_password, path_check,
                    probe_i, attempts, enabled, attached_count, bpf_loaded,
                    exit_status, metrics_server, health_server, metrics,
                    polled, health_resp, todo, cfg >>

\* KeyboardInterrupt raised between two statements of the running handler:
\* "except Exception" does not catch it, the rest of the handler is skipped,
\* run() catches it and runs its finally clause
InterruptInHandler ==
    /\ pc = "poll"
    /\ todo # << >>
    /\ todo' = << >>
    /\ metrics' = RunFinally(metrics)
    /\ exit_status' = << 0 >>
    /\ pc' = "done"
    /\ UNCHANGED << config_pid, auth_username, auth_password, path_check,
                    probe_i, attempts, enabled, attached_count, bpf_loaded,
                    metrics_server, health_server, polled, health_resp,
                    metrics_resp, cfg >>

\* run(): KeyboardInterrupt in the loop, the finally clause, run() returns
KeyboardInterrupt ==
    /\ pc = "poll"
    /\ metrics' = RunFinally(metrics)
    /\ exit_status' = << 0 >>
    /\ pc' = "done"
    /\ UNCHANGED << config_pid, auth_username, auth_password, path_check,
                    probe_i, attempts, enabled, attached_count, bpf_loaded,
                    metrics_server, health_server, polled, health_resp,
                    metrics_resp,
                    todo, cfg >>

\* KeyboardInterrupt raised while no handler runs
InterruptBetweenRecords == todo = << >> /\ KeyboardInterrupt

\* run(): another exception leaves the loop, the finally clause, it propagates
PollRaises ==
    /\ pc = "poll"
    /\ metrics' = RunFinally(metrics)
    /\ exit_status' = << 1 >>
    /\ pc' = "exit"
    /\ UNCHANGED << config_pid, auth_username, auth_password, path_check,
                    probe_i, attempts, enabled, attached_count, bpf_loaded,
                    metrics_server, health_server, polled, health_resp,
                    metrics_resp,
                    todo, cfg >>

\* a GET on the health port while the process lives
HealthRequest ==
    /\ Alive
    /\ health_server
    /\ \E path \in HealthPaths :
          health_resp' = << [ path |-> path, resp |-> HealthGET(path) ] >>
    /\ UNCHANGED << pc, config_pid, auth_username, auth_password, path_check,
                    probe_i, attempts, enabled, attached_count, bpf_loaded,
                    exit_status, metrics_server, health_server, metrics,
                    polled, metrics_resp,
                    todo, cfg >>

\* a GET on the metrics port while the process lives
MetricsRequest ==
    /\ Alive
    /\ metrics_server # "none"
    /\ \E req \in Requests :
          /\ metrics_server = "plain" => req.path = "/metrics"
          /\ metrics_resp' =
                << [ req |-> req,
                     resp |-> IF metrics_server = "basic_auth"
                              THEN MetricsHandlerGET(auth_username,
                                                     auth_password, req, metrics)
                              ELSE PlainServerGET(metrics) ] >>
    /\ UNCHANGED << pc, config_pid, auth_username, auth_password, path_check,
                    probe_i, attempts, enabled, attached_count, bpf_loaded,
                    exit_status, metrics_server, health_server, metrics,
                    polled, health_resp,
                    todo, cfg >>

----------------------------------------------------------------------------
\* Specifications

\* FibreExporter(config) before run()
Init ==
    /\ pc = "start"
    /\ config_pid \in { None } \cup Pids
    /\ \E c \in { << NoneStr, NoneStr >>, << << "u" >>, << "p" >> >> } :
          auth_username = c[1] /\ auth_password = c[2]
    /\ path_check = "unchecked"
    /\ probe_i = 1
    /\ attempts = [ p \in { KnownProbes[i] : i \in 1..Len(KnownProbes) } |-> 0 ]
    /\ enabled = { }
    /\ attached_count = 0
    /\ bpf_loaded = FALSE
    /\ exit_status = << >>
    /\ metrics_server = "none"
    /\ health_server = FALSE
    /\ metrics = InitMetrics
    /\ polled = << >>
    /\ health_resp = << >>
    /\ metrics_resp = << >>
    /\ todo = << >>
    /\ cfg = << >>

\* the steps run() takes by itself, up to the polling loop
RunStep ==
    \/ DetectPid
    \/ VerifyBinaryPath
    \/ EnableProbe
    \/ AttachReturn
    \/ RunNoProbes
    \/ RunSetProbesAttached
    \/ StartMetricsServer
    \/ StartHealthServer
    \/ SetExporterUp

Next ==
    \/ DetectPid
    \/ VerifyBinaryPath
    \/ EnableProbe
    \/ AttachReturn
    \/ RunNoProbes
    \/ RunSetProbesAttached
    \/ StartMetricsServer
    \/ StartHealthServer
    \/ SetExporterUp
    \/ PollFew
    \/ PollTimeout
    \/ PollDecodeError
    \/ KeyboardInterrupt
    \/ PollRaises
    \/ HealthRequest

\* the whole run, with a few events and the health endpoint
Spec == Init /\ [][Next]_vars

\* the same run; run() is sequential code, so each of its steps is taken
FairSpec == Init /\ [][Next]_vars /\ WF_vars(RunStep)

\* run() with all four probes attached, about to start the servers
AllAttached ==
    /\ pc = "start_metrics"
    /\ config_pid \in Pids
    /\ path_check = "match"
    /\ probe_i = Len(KnownProbes) + 1
    /\ attempts = [ p \in { KnownProbes[i] : i \in 1..Len(KnownProbes) } |-> 1 ]
    /\ enabled = { KnownProbes[i] : i \in 1..Len(KnownProbes) }
    /\ attached_count = Len(KnownProbes)
    /\ bpf_loaded = TRUE
    /\ exit_status = << >>
    /\ metrics_server = "none"
    /\ health_server = FALSE
    /\ metrics = [ InitMetrics EXCEPT !.exporter_probes_attached = Len(KnownProbes) ]
    /\ polled = << >>
    /\ health_resp = << >>
    /\ metrics_resp = << >>
    /\ todo = << >>
    /\ cfg = << >>

HttpInit ==
    /\ AllAttached
    /\ auth_username \in Usernames
    /\ auth_password \in Passwords

HttpNext ==
    \/ StartMetricsServer
    \/ StartHealthServer
    \/ SetExporterUp
    \/ PollFew
    \/ MetricsRequest
    \/ KeyboardInterrupt

\* the metrics endpoint under every credential configuration
HttpSpec == HttpInit /\ [][HttpNext]_vars

EventInit ==
    /\ AllAttached
    /\ auth_username = NoneStr
    /\ auth_password = NoneStr

EventNext ==
    \/ StartMetricsServer
    \/ StartHealthServer
    \/ SetExporterUp
    \/ PollAny
    \/ PollTimeout
    \/ PollDecodeError
    \/ KeyboardInterrupt

\* the polling loop over every event record of the model
EventSpec == EventInit /\ [][EventNext]_vars

\* the process at the start of main(), under every combination of sources
ConfigInit ==
    /\ pc = "main"
    /\ \E cli \in CommandLines, env \in Environments,
          file \in { << >> } \cup { << f >> : f \in ConfigFiles } :
          cfg = [ stage |-> "start", cli |-> cli, env |-> env, file |-> file,
                  args |-> << >>, config |-> << >> ]
    /\ config_pid = None
    /\ auth_username = NoneStr
    /\ auth_password = NoneStr
    /\ path_check = "unchecked"
    /\ probe_i = 1
    /\ attempts = [ p \in { KnownProbes[i] : i \in 1..Len(KnownProbes) } |-> 0 ]
    /\ enabled = { }
    /\ attached_count = 0
    /\ bpf_loaded = FALSE
    /\ exit_status = << >>
    /\ metrics_server = "none"
    /\ health_server = FALSE
    /\ metrics = InitMetrics
    /\ polled = << >>
    /\ health_resp = << >>
    /\ metrics_resp = << >>
    /\ todo = << >>

ConfigNext ==
    \/ MainParseArgs
    \/ MainLoadConfig
    \/ MainCliOverrides
    \/ MainValidate

\* main() up to the construction of the exporter
ConfigSpec == ConfigInit /\ [][ConfigNext]_vars

OrderNext ==
    \/ StartMetricsServer
    \/ StartHealthServer
    \/ SetExporterUp
    \/ PollOrdered
    \/ PollTimeout
    \/ PollDecodeError
    \/ KeyboardInterrupt

\* the polling loop over a few records of every kind
OrderSpec == EventInit /\ [][OrderNext]_vars

StepNext ==
    \/ StartMetricsServer
    \/ StartHealthServer
    \/ SetExporterUp
    \/ HandlerBegin
    \/ HandlerWrite
    \/ Scrape
    \/ InterruptBetweenRecords
    \/ InterruptInHandler

\* the polling loop with _handle_event taken one metric call at a time, the
\* metrics server thread and the shutdown signal between any two of them
StepSpec == EventInit /\ [][StepNext]_vars

----------------------------------------------------------------------------
\* Vocabulary of the properties

ProbeSet == { KnownProbes[i] : i \in 1..Len(KnownProbes) }

\* _attach_probes() has returned
AttachFinished == probe_i > Len(KnownProbes) /\ pc # "attach"

Abs(x) == IF x < 0 THEN -x ELSE x

\* observations held by all histogram series together
TotalObservations ==
    metrics.block_reconstruction_time.count + metrics.chunks_used.count
        + metrics.block_connection_time.count + metrics.block_tx_count.count

\* a DeliveryWinner for height h: a delivery record with a winner tag, no latency
IsDeliveryWinner(e, h) ==
    e.type = 3 /\ e.height = h /\ DecodeStr(e.winner) # << >>
        /\ e.udp_ns = 0 /\ e.cmpct_ns = 0

\* a DeliveryTiming for height h with both latencies present, no winner tag
IsDeliveryTiming(e, h) ==
    e.type = 3 /\ e.height = h /\ DecodeStr(e.winner) = << >>
        /\ e.udp_ns > 0 /\ e.cmpct_ns > 0

\* the metrics of section 6.1 that describe blocks: all but the exporter_* ones
DomainMetricNames ==
    { "blocks_reconstructed", "block_reconstruction_time", "chunks_used",
      "chunks_received", "chunks_used_total", "blocks_sent", "block_deliveries",
      "last_block_height", "blocks_connected", "block_connection_time",
      "block_tx_count" }

\* the outcome the step appends to polled
LastPolled == polled'[Len(polled')]

\* the step is one perf_buffer_poll outcome
IsPollStep == Len(polled') = Len(polled) + 1

\* the step hands _handle_event a decoded record
IsRecordStep == IsPollStep /\ LastPolled.type >= 0

\* the step leaves every domain metric as it was
DomainUnchanged == \A name \in DomainMetricNames : metrics'[name] = metrics[name]

\* the counters and histograms of a metrics container: the gauges blanked
CountersAndHistograms(m) ==
    [ m EXCEPT !.last_block_height = << >>, !.exporter_up = 0,
               !.exporter_probes_attached = 0 ]

\* the permutations of 1..n
Orders(n) ==
    { f \in [ 1..n -> 1..n ] : \A i, j \in 1..n : i # j => f[i] # f[j] }

----------------------------------------------------------------------------
\* C1: when none of the four probes attaches, run() sets the exporter-up
\* gauge to 0 and exits with status 1; of the steps of run() only the fatal
\* one is possible, no server is started, nothing is polled and the
\* exporter-up gauge is never 1.
C1_ZeroProbesFatal ==
    (AttachFinished /\ enabled = { }) =>
        /\ pc \in { "attached", "exit" }
        /\ pc = "attached" => ENABLED RunNoProbes /\ ~ENABLED RunSetProbesAttached
        /\ pc = "exit" => exit_status = << 1 >>
        /\ metrics.exporter_up = 0
        /\ metrics_server = "none"
        /\ ~health_server
        /\ polled = << >>

C1_Witness ==
    /\ AttachFinished
    /\ enabled = { }
    /\ \A p \in ProbeSet : attempts[p] = 1
    /\ pc = "exit"
    /\ exit_status = << 1 >>

\* C2: after an attach phase in which k >= 1 probes attached, the
\* probes-attached gauge reads k from the moment run() sets it, the process
\* ends only from inside the polling loop, and run() reaches the polling loop.
C2_GaugeReadsAttached ==
    (AttachFinished /\ enabled # { } /\ pc # "attached") =>
        metrics.exporter_probes_attached = Cardinality(enabled)

C2_EndsOnlyFromLoop ==
    (AttachFinished' /\ enabled' # { } /\ pc' \in { "exit", "done" }) =>
        pc = "poll"

C2_PartialAttachRuns ==
    /\ []C2_GaugeReadsAttached
    /\ [][C2_EndsOnlyFromLoop]_vars
    /\ (pc = "attached" /\ enabled # { }) ~> (pc = "poll")

C2_Witness ==
    /\ pc = "poll"
    /\ Cardinality(enabled) = 3
    /\ metrics.exporter_probes_attached = 3
    /\ polled # << >>

\* C3: the attach loop attempts each of the four known probes exactly once,
\* in order and whatever the earlier attempts gave, and the count it returns
\* is the number of attempts that succeeded.
C3_EveryProbeAttemptedOnce ==
    /\ pc = "attach" =>
          \A i \in 1..Len(KnownProbes) :
              attempts[KnownProbes[i]] = IF i < probe_i THEN 1 ELSE 0
    /\ AttachFinished => \A p \in ProbeSet : attempts[p] = 1
    /\ attached_count = Cardinality(enabled)
    /\ \A p \in enabled : attempts[p] = 1

C3_Witness ==
    /\ AttachFinished
    /\ enabled = { "block_send_start", "block_connected" }
    /\ attached_count = 2
    /\ \A p \in ProbeSet : attempts[p] = 1

\* C4: once a DeliveryWinner and a DeliveryTiming (latencies a and b) for
\* the same height have both been processed, in either order, exactly one
\* margin measurement of |a - b| has been recorded.
C4_MarginEmittedOnce ==
    \A h \in Heights :
        \A i, j \in 1..Len(polled) :
            (/\ Len(polled) = 2
             /\ IsDeliveryWinner(polled[i], h)
             /\ IsDeliveryTiming(polled[j], h)) =>
                \E name \in HistogramNames :
                    /\ metrics[name].count = 1
                    /\ metrics[name].sum = Abs(polled[j].udp_ns - polled[j].cmpct_ns)

\* C5: a DeliveryTiming whose DeliveryWinner has not arrived when the wait
\* window is over has had its two latency observations recorded.
C5_TimingRetiredOnExpiry ==
    \A h \in Heights :
        (/\ Len(polled) = 1 + ExpiryPolls
         /\ IsDeliveryTiming(polled[1], h)
         /\ \A k \in 2..Len(polled) : polled[k] = PollTimedOut) =>
            TotalObservations = 2

\* C6: when sub-events for more distinct heights than the cap have arrived,
\* none of them completed, the eviction of the oldest pending record has
\* been counted on an error counter.
C6_OverflowCounted ==
    (/\ Len(polled) > MaxPending
     /\ \A i \in 1..Len(polled) : IsDeliveryWinner(polled[i], polled[i].height)
     /\ \A i, j \in 1..Len(polled) :
            i # j => polled[i].height # polled[j].height) =>
        \E l \in DOMAIN metrics.exporter_errors_total :
            metrics.exporter_errors_total[l] >= 1

\* C7: a race in which both mechanisms report the same latency records a
\* margin of zero and is attributed to FibreUDP, never to CompactBlock or
\* Other.
C7_TieGoesToFibre ==
    (/\ Len(polled) = 1
     /\ polled[1].type = 3
     /\ polled[1].udp_ns > 0
     /\ polled[1].udp_ns = polled[1].cmpct_ns
     /\ DecodeStr(polled[1].winner) # << >>) =>
        /\ \E name \in HistogramNames :
              metrics[name].count = 1 /\ metrics[name].sum = 0
        /\ \A l \in DOMAIN metrics.block_deliveries :
              l[1] # "fibre_udp" => metrics.block_deliveries[l] = 0

\* C8: with a credential pair configured, GET /metrics gets 200 and the
\* payload exactly when the request carries "Basic" credentials that decode
\* to username ":" password, and otherwise 401 with a realm and no payload;
\* with no credential configured every GET /metrics gets 200 and the payload.
C8_MetricsAuth ==
    (metrics_resp # << >> /\ metrics_resp[1].req.path = "/metrics") =>
        LET header == metrics_resp[1].req.header
            resp == metrics_resp[1].resp
            right ==
                /\ header.present
                /\ header.scheme = "Basic "
                /\ header.decodes
                /\ header.text = auth_username \o << ":" >> \o auth_password
            served ==
                /\ resp.status = 200
                /\ resp.payload # << >>
                /\ resp.realm = << >>
            refused ==
                /\ resp.status = 401
                /\ resp.payload = << >>
                /\ resp.realm = << "FIBRE Metrics" >>
        IN  /\ (Truthy(auth_username) /\ Truthy(auth_password)) =>
                  IF right THEN served ELSE refused
            /\ (auth_username = NoneStr /\ auth_password = NoneStr) => served

C8_Witness ==
    /\ metrics_resp # << >>
    /\ auth_username = << "u" >>
    /\ auth_password = << "p", ":", "x" >>
    /\ metrics_resp[1].req.path = "/metrics"
    /\ metrics_resp[1].req.header.text = << "u", ":", "p", ":", "x" >>
    /\ metrics_resp[1].resp.status = 200
    /\ polled # << >>

\* C9: the health handler answers /health and /ready with 200 "OK" and any
\* other path with 404, in every state of the run: whatever attached and
\* whatever was processed.
C9_HealthIsLivenessOnly ==
    health_resp # << >> =>
        LET path == health_resp[1].path
            resp == health_resp[1].resp
        IN  /\ (path = "/health" \/ path = "/ready") =>
                  resp.status = 200 /\ resp.body = "OK"
            /\ (path # "/health" /\ path # "/ready") =>
                  resp.status = 404 /\ resp.body = "Not Found"

C9_Witness ==
    /\ health_resp # << >>
    /\ health_resp[1].path = "/ready"
    /\ health_resp[1].resp.status = 200
    /\ Cardinality(enabled) = 1
    /\ polled # << >>

\* C10: every delivery record increments exactly one delivery series by one,
\* the series whose mechanism is fibre_udp when the decoded winner starts
\* with "F", bip152_cmpct when it starts with "B", and other for anything
\* else, the empty string and lower case included.
C10_DeliveryStep ==
    (Len(polled') = Len(polled) + 1 /\ polled'[Len(polled')].type = 3) =>
        LET e == polled'[Len(polled')]
            s == DecodeStr(e.winner)
            expected ==
                CASE s # << >> /\ s[1] = 70 -> "fibre_udp"
                  [] s # << >> /\ s[1] = 66 -> "bip152_cmpct"
                  [] OTHER -> "other"
            changed ==
                { l \in DOMAIN metrics.block_deliveries :
                    metrics'.block_deliveries[l] # metrics.block_deliveries[l] }
        IN  /\ Cardinality(changed) = 1
            /\ \A l \in changed :
                  /\ l[1] = expected
                  /\ metrics'.block_deliveries[l] = metrics.block_deliveries[l] + 1

C10_ClassifyByFirstChar == [][C10_DeliveryStep]_vars

C10_Witness ==
    /\ Len(polled) = 2
    /\ polled[1].type = 3
    /\ polled[1].winner = << 102, NUL >>
    /\ polled[2].type = 3
    /\ polled[2].winner = << 98, ChF >>
    /\ polled[1].peer = polled[2].peer
    /\ metrics.block_deliveries[<< "other", DecodeStr(polled[1].peer) >>] = 2

\* C11 (as stated): a record whose type tag is none of 1, 2, 3, 10 runs no
\* handler and changes no domain metric, is counted on no series of the
\* events-processed counter, and is counted on the error counter.
C11_UnknownStepRejected ==
    (IsRecordStep /\ LastPolled.type \notin DOMAIN EVENT_TYPE_NAMES) =>
        /\ DomainUnchanged
        /\ metrics'.exporter_events_total = metrics.exporter_events_total
        /\ metrics'.exporter_errors_total["event_processing"] =
              metrics.exporter_errors_total["event_processing"] + 1

C11_UnknownStepCounted ==
    (IsRecordStep /\ LastPolled.type \notin DOMAIN EVENT_TYPE_NAMES) =>
        /\ DomainUnchanged
        /\ metrics'.exporter_events_total =
              [ metrics.exporter_events_total EXCEPT !["unknown"] = @ + 1 ]
        /\ metrics'.exporter_errors_total = metrics.exporter_errors_total

C12_FailureStep ==
    (IsPollStep /\ LastPolled = DecodeFailed) =>
        /\ metrics'.exporter_errors_total =
              [ metrics.exporter_errors_total EXCEPT !["event_processing"] = @ + 1 ]
        /\ DomainUnchanged
        /\ metrics'.exporter_events_total = metrics.exporter_events_total
        /\ metrics'.exporter_up = metrics.exporter_up
        /\ pc' = "poll"
        /\ exit_status' = << >>

C12_LoopGoesOn ==
    (/\ pc = "poll"
     /\ polled # << >>
     /\ polled[Len(polled)] = DecodeFailed
     /\ Len(polled) < MaxEvents) => ENABLED PollAny

C12_FailureIsNotFatal == [][C12_FailureStep]_vars /\ []C12_LoopGoesOn

C12_Witness ==
    /\ pc = "poll"
    /\ Len(polled) = 2
    /\ polled[1] = DecodeFailed
    /\ polled[2].type = 1
    /\ metrics.exporter_errors_total["event_processing"] = 1
    /\ metrics.blocks_reconstructed = 1
    /\ metrics.exporter_up = 1

C14_ScrapeSeesWholeUpdates ==
    metrics_resp # << >> =>
        LET snapshot == metrics_resp[1].resp.payload[1]
        IN  \A name \in HistogramNames :
                \E k \in 0..Len(polled) :
                    snapshot[name] =
                        ApplyAll(InitMetrics, SubSeq(polled, 1, k))[name]

\* C15: once the shutdown signal has stopped the polling loop, every record
\* whose handling had started has all its metric updates applied.
C15_StopsBetweenRecords ==
    pc = "done" => metrics = [ ApplyAll(InitMetrics, polled) EXCEPT
                                 !.exporter_probes_attached = Len(KnownProbes) ]

\* the statement-by-statement handler and the handler taken whole agree
\* whenever no handler is running and none was interrupted
StepwiseAgrees ==
    (pc = "poll" /\ todo = << >>) =>
        metrics = [ ApplyAll(InitMetrics, polled) EXCEPT
                      !.exporter_probes_attached = Len(KnownProbes),
                      !.exporter_up = 1 ]

\* C16 (as stated): run() exits by itself only when the attach phase has
\* ended with zero probes attached.
C16_OnlyZeroProbesHalts ==
    pc = "exit" => (AttachFinished /\ enabled = { })

\* C16 (amended): run() exits by itself at start-up in two cases only: no
\* PID was configured and none is detected, or the attach phase ended with
\* zero probes; the binary path check, whatever its outcome, and a failure
\* while a record is processed never end the run; once a probe has attached
\* the run ends only from inside the polling loop.
C16_HaltStep ==
    /\ (pc' = "exit" /\ pc # "exit") =>
          \/ pc = "start" /\ config_pid = None /\ config_pid' = None
          \/ pc = "attached" /\ enabled = { }
          \/ pc = "poll" /\ ~IsPollStep
    /\ pc' = "done" => pc \in { "poll", "done" }
    /\ pc = "verify" => pc' \in { "verify", "attach" }
    /\ IsPollStep => pc' = "poll"

C16_HaltsOnlyWithoutPidOrProbes == [][C16_HaltStep]_vars

C16_Witness ==
    /\ pc = "exit"
    /\ exit_status = << 1 >>
    /\ config_pid = None
    /\ probe_i = 1
    /\ \A p \in ProbeSet : attempts[p] = 0
    /\ metrics.exporter_up = 0

\* C17: every peer label that a delivery series was created with has passed
\* a sanitizer: it is no longer than a peer buffer and holds no control
\* character (a code below 32, or 127).
C17_PeerLabelSanitized ==
    \A l \in DOMAIN metrics.block_deliveries :
        metrics.block_deliveries[l] > 0 =>
            /\ Len(l[2]) <= Len(NulBuf)
            /\ \A i \in 1..Len(l[2]) : l[2][i] >= 32 /\ l[2][i] # 127

\* the string a buffer stands for: its bytes before the first NUL, all of
\* them when it has none, without the bytes that are no UTF-8
C18_StringOf(buf) ==
    LET nuls == { i \in 1..Len(buf) : buf[i] = 0 }
        end == IF nuls = { } THEN Len(buf)
               ELSE (CHOOSE i \in nuls : \A j \in nuls : i <= j) - 1
    IN  SelectSeq(SubSeq(buf, 1, end), LAMBDA b : b < 128)

\* C18: a delivery record is counted on the series named by the strings its
\* winner and peer buffers stand for, where the string of a buffer ends at
\* its first NUL wherever that is, is the whole buffer when there is no NUL,
\* and has every undecodable byte replaced by nothing; no such buffer makes
\* the record fail.
C18_DecodeStep ==
    (IsRecordStep /\ LastPolled.type = 3) =>
        LET winner == C18_StringOf(LastPolled.winner)
            peer == C18_StringOf(LastPolled.peer)
            mechanism ==
                CASE winner # << >> /\ winner[1] = 70 -> "fibre_udp"
                  [] winner # << >> /\ winner[1] = 66 -> "bip152_cmpct"
                  [] OTHER -> "other"
        IN  /\ << mechanism, peer >> \in DOMAIN metrics.block_deliveries
            /\ metrics'.block_deliveries =
                  [ metrics.block_deliveries EXCEPT ![<< mechanism, peer >>] = @ + 1 ]
            /\ metrics'.exporter_errors_total = metrics.exporter_errors_total
            /\ metrics'.exporter_events_total["block_delivery"] =
                  metrics.exporter_events_total["block_delivery"] + 1

C18_BuffersDecoded == [][C18_DecodeStep]_vars

C18_Witness ==
    /\ Len(polled) = 2
    /\ polled[1].winner = << 0, 70 >>
    /\ polled[1].peer = << 0, 112 >>
    /\ polled[2].winner = << 98, 70 >>
    /\ polled[2].peer = << 113, 112 >>
    /\ metrics.block_deliveries[<< "other", << >> >>] = 1
    /\ metrics.block_deliveries[<< "other", << 113, 112 >> >>] = 1
    /\ metrics.exporter_errors_total["event_processing"] = 0

\* C19: a record whose duration field is negative (the sentinel) adds no
\* observation to the histogram of that duration and counts no error, while
\* the rest of the record is processed: a block-connected record still
\* increments blocks_connected and sets the height gauge, a
\* block-reconstructed record still increments its counters.
C19_SentinelStep ==
    (IsRecordStep /\ LastPolled.type \in { 1, 10 } /\ LastPolled.duration_us < 0) =>
        /\ metrics'.block_reconstruction_time = metrics.block_reconstruction_time
        /\ metrics'.block_connection_time = metrics.block_connection_time
        /\ metrics'.exporter_errors_total = metrics.exporter_errors_total
        /\ LastPolled.type = 10 =>
              /\ metrics'.blocks_connected = metrics.blocks_connected + 1
              /\ metrics'.last_block_height = << LastPolled.height >>
        /\ LastPolled.type = 1 =>
              /\ metrics'.blocks_reconstructed = metrics.blocks_reconstructed + 1
              /\ metrics'.chunks_used_total =
                    metrics.chunks_used_total + LastPolled.chunks_used

C19_SentinelIsAbsent == [][C19_SentinelStep]_vars

\* the part of C19 about block-connected records alone
C19_ConnectedSentinelStep ==
    (IsRecordStep /\ LastPolled.type = 10) => C19_SentinelStep

C19_ConnectedSentinelIsAbsent == [][C19_ConnectedSentinelStep]_vars

\* the value the precedence rule gives setting k: command line, else
\* environment, else file, else built-in default
C20_Precedence(k) ==
    IF cfg.cli[k] # None THEN cfg.cli[k]
    ELSE IF cfg.env[k] # None THEN cfg.env[k]
    ELSE IF cfg.file # << >> /\ cfg.file[1][k] # None THEN cfg.file[1][k]
    ELSE ConfigDefault[k]

\* C20: the configuration main() ends with gives every setting the value of
\* the precedence rule, a command-line value that equals the built-in
\* default included.
C20_CliEnvFileDefault ==
    cfg.stage \in { "overridden", "constructed", "refused" } =>
        \A k \in Settings : cfg.config[1][k] = C20_Precedence(k)

\* C20 without the case it fails in: the rule holds whenever no option is
\* given on the command line with the value of its built-in default
C20_UnlessDefaultGiven ==
    (/\ cfg.stage \in { "overridden", "constructed", "refused" }
     /\ \A k \in Settings : cfg.cli[k] # ConfigDefault[k] \/ cfg.cli[k] = None) =>
        \A k \in Settings : cfg.config[1][k] = C20_Precedence(k)

\* C21: the binary path check changes nothing but its own log line: whether
\* the paths match, differ, or the path of the process cannot be read,
\* run() goes on to the attach phase in the same state; afterwards the fatal
\* branch is taken exactly when zero probes attached and the servers are
\* started exactly when at least one did, whatever the path check gave.
C21_PathCheckStep ==
    pc = "verify" =>
        /\ pc' \in { "verify", "attach" }
        /\ UNCHANGED << config_pid, auth_username, auth_password, probe_i,
                        attempts, enabled, attached_count, bpf_loaded,
                        exit_status, metrics_server, health_server, metrics,
                        polled, health_resp, metrics_resp, todo, cfg >>

C21_OutcomeByProbesOnly ==
    /\ pc = "verify" =>
          \A outcome \in { "match", "mismatch", "oserror" } :
              ENABLED (VerifyBinaryPath /\ path_check' = outcome /\ pc' = "attach")
    /\ pc = "attached" =>
          /\ ENABLED RunNoProbes <=> enabled = { }
          /\ ENABLED RunSetProbesAttached <=> enabled # { }
    /\ (pc = "exit" /\ path_check # "unchecked" /\ polled = << >>
            /\ metrics_server = "none") => enabled = { }

C21_PathMismatchIsWarning == [][C21_PathCheckStep]_vars /\ []C21_OutcomeByProbesOnly

C21_Witness ==
    /\ path_check = "mismatch"
    /\ pc = "poll"
    /\ Cardinality(enabled) = 2
    /\ metrics.exporter_up = 1
    /\ polled # << >>

\* C22: the exporter-up gauge reads 1 exactly while run() is in its polling
\* loop: it is set to 1 by the one step that enters the loop, the loop is
\* entered at most once, every step that ends the loop (shutdown signal or
\* escaping error) leaves it at 0, and a run that has ended never changes
\* it again.
C22_UpOnlyInLoop == metrics.exporter_up = 1 <=> pc = "poll"

C22_UpStep ==
    /\ (metrics'.exporter_up = 1 /\ metrics.exporter_up = 0) =>
          pc = "set_up" /\ pc' = "poll"
    /\ (metrics'.exporter_up = 0 /\ metrics.exporter_up = 1) =>
          pc = "poll" /\ pc' \in { "done", "exit" }
    /\ pc = "poll" => pc' \in { "poll", "done", "exit" }
    /\ pc \in { "done", "exit" } => pc' = pc /\ metrics' = metrics

C22_UpSetOnceClearedOnce == []C22_UpOnlyInLoop /\ [][C22_UpStep]_vars

C22_Witness ==
    /\ pc = "exit"
    /\ exit_status = << 1 >>
    /\ metrics_server # "none"
    /\ polled # << >>
    /\ metrics.exporter_up = 0
    /\ metrics.exporter_probes_attached = 1

\* C23: the last-block-height gauge is unset while no delivery or
\* block-connected record has been processed, and afterwards reads the
\* height of the latest such record, also when an earlier record carried a
\* higher one.
C23_LastWriteWins ==
    LET writers == { i \in 1..Len(polled) : polled[i].type \in { 3, 10 } }
        latest == CHOOSE i \in writers : \A j \in writers : j <= i
    IN  metrics.last_block_height =
            IF writers = { } THEN << >> ELSE << polled[latest].height >>

C23_Witness ==
    /\ Len(polled) = 2
    /\ polled[1].type = 10
    /\ polled[1].height = 101
    /\ polled[2].type = 3
    /\ polled[2].height = 100
    /\ metrics.last_block_height = << 100 >>

\* the state of the probe lifecycle of spec section 3 the run is in
Lifecycle ==
    IF pc \in { "start", "verify" } \/ (pc = "exit" /\ probe_i = 1)
    THEN "Unattached"
    ELSE IF pc \in { "attach", "attached" } THEN "Attaching"
    ELSE IF enabled = { } THEN "Failed"
    ELSE "Attached"

\* C24: the lifecycle moves forward only, Unattached to Attaching to
\* Attached or Failed; every probe is attempted at most once and the attach
\* phase is entered from the path check only; Failed is terminal; a server,
\* the up flag at 1 and a poll exist only in Attached, with at least one
\* probe and the BPF program loaded; the metrics server is started before
\* the health server, both before the flag is raised, and the flag before
\* the first poll.
C24_LifecycleStep ==
    /\ << Lifecycle, Lifecycle' >> \in
          { << "Unattached", "Unattached" >>, << "Unattached", "Attaching" >>,
            << "Attaching", "Attaching" >>, << "Attaching", "Attached" >>,
            << "Attaching", "Failed" >>, << "Attached", "Attached" >>,
            << "Failed", "Failed" >> }
    /\ (pc' = "attach" /\ pc # "attach") => pc = "verify" /\ probe_i = 1
    /\ Lifecycle = "Failed" =>
          /\ pc' = "exit"
          /\ metrics' = metrics
          /\ metrics_server' = "none"
          /\ health_server' = FALSE
    /\ (metrics.exporter_up = 0 /\ metrics'.exporter_up = 1) =>
          metrics_server # "none" /\ health_server /\ polled = << >>
    /\ (~health_server /\ health_server') => metrics_server # "none"

C24_OnlyWhenAttached ==
    /\ \A p \in ProbeSet : attempts[p] <= 1
    /\ (\/ metrics_server # "none"
        \/ health_server
        \/ metrics.exporter_up = 1
        \/ pc = "poll"
        \/ polled # << >>) =>
          /\ Lifecycle = "Attached"
          /\ Cardinality(enabled) >= 1
          /\ bpf_loaded
    /\ health_server => metrics_server # "none"
    /\ metrics.exporter_up = 1 => health_server
    /\ polled # << >> => pc \in { "poll", "done", "exit" }

C24_LifecycleForwardOnly == [][C24_LifecycleStep]_vars /\ []C24_OnlyWhenAttached

C24_Witness ==
    /\ Lifecycle = "Attached"
    /\ Cardinality(enabled) = 3
    /\ pc = "done"
    /\ polled # << >>
    /\ metrics_server # "none"
    /\ health_server

\* both credentials are configured and non-empty
C25_BothConfigured ==
    /\ auth_username # NoneStr /\ auth_username # << >>
    /\ auth_password # NoneStr /\ auth_password # << >>

\* C25: run() starts the authenticating server exactly when both
\* credentials are configured and non-empty, which is exactly when the
\* handler's own check refuses a request without credentials; in every
\* other configuration each GET /metrics is answered 200 with the payload,
\* whatever header it carries.
C25_AuthOnlyWithBoth ==
    /\ metrics_server # "none" =>
          (metrics_server = "basic_auth" <=> C25_BothConfigured)
    /\ ~CheckAuth(auth_username, auth_password, NoHeader) <=> C25_BothConfigured
    /\ (/\ metrics_resp # << >>
        /\ metrics_resp[1].req.path = "/metrics"
        /\ ~C25_BothConfigured) =>
          /\ metrics_resp[1].resp.status = 200
          /\ metrics_resp[1].resp.payload # << >>
          /\ metrics_resp[1].resp.realm = << >>

C25_Witness ==
    /\ auth_username = << "u" >>
    /\ auth_password = << >>
    /\ metrics_server = "plain"
    /\ metrics_resp # << >>
    /\ metrics_resp[1].req.path = "/metrics"
    /\ ~metrics_resp[1].req.header.present
    /\ metrics_resp[1].resp.status = 200

\* the series of the events-processed counter a record of type t belongs on
C26_SeriesOf(t) ==
    CASE t = 1 -> "block_reconstructed"
      [] t = 2 -> "block_send_start"
      [] t = 3 -> "block_delivery"
      [] t = 10 -> "block_connected"
      [] OTHER -> "unknown"

\* C26: a decoded record adds one to the series of its type (to "unknown"
\* for a tag of no known type) and to no other series of the
\* events-processed counter, and that increment is the first metric call
\* made for the record.
C26_CountStep ==
    IsRecordStep =>
        /\ metrics'.exporter_events_total =
              [ metrics.exporter_events_total EXCEPT
                  ![C26_SeriesOf(LastPolled.type)] = @ + 1 ]
        /\ Head(Writes(LastPolled)).metric = "exporter_events_total"
        /\ Head(Writes(LastPolled)).key = << C26_SeriesOf(LastPolled.type) >>
        /\ \A i \in 2..Len(Writes(LastPolled)) :
              Writes(LastPolled)[i].metric # "exporter_events_total"

\* C26: the series of the events-processed counter add up to the number of
\* records decoded so far, each series to the number of records of its
\* type, and the error counter is at most the number of records polled,
\* decoded or not.
C26_CountsAddUp ==
    LET decoded == { i \in 1..Len(polled) : polled[i].type >= 0 }
        undecoded == { i \in 1..Len(polled) : polled[i] = DecodeFailed }
        total == metrics.exporter_events_total
    IN  /\ total["block_reconstructed"] + total["block_send_start"]
              + total["block_delivery"] + total["block_connected"]
              + total["unknown"] = Cardinality(decoded)
        /\ \A l \in DOMAIN total :
              total[l] =
                Cardinality({ i \in decoded : C26_SeriesOf(polled[i].type) = l })
        /\ metrics.exporter_errors_total["event_processing"]
              <= Cardinality(decoded) + Cardinality(undecoded)

C26_EveryRecordCountedOnce == [][C26_CountStep]_vars /\ []C26_CountsAddUp

C26_Witness ==
    /\ Len(polled) = 2
    /\ polled[1].type = 4
    /\ polled[2] = DecodeFailed
    /\ metrics.exporter_events_total["unknown"] = 1
    /\ metrics.exporter_errors_total["event_processing"] = 1

\* the domain metrics a record of type t may change
C27_Own(t) ==
    CASE t = 1 -> { "blocks_reconstructed", "block_reconstruction_time",
                    "chunks_used", "chunks_used_total", "chunks_received" }
      [] t = 2 -> { "blocks_sent" }
      [] t = 3 -> { "block_deliveries", "last_block_height" }
      [] t = 10 -> { "blocks_connected", "last_block_height",
                     "block_connection_time", "block_tx_count" }
      [] OTHER -> { }

\* the counters without labels
C27_PlainCounters ==
    { "blocks_reconstructed", "chunks_received", "chunks_used_total",
      "blocks_sent", "blocks_connected" }

\* C27: a record changes no domain metric but those of its kind; a
\* block-reconstructed record adds one to its counter, one observation to
\* each of its two histograms, chunks_used and chunks_recvd to the two chunk
\* counters; a block-send-started record adds one to blocks_sent; a delivery
\* record adds one to one delivery series and sets the height gauge; a
\* block-connected record adds one to blocks_connected and sets the height
\* gauge; the height gauge is the only metric two kinds share; no counter
\* decreases in any step.
C27_FrameStep ==
    /\ IsRecordStep =>
          LET e == LastPolled
          IN  /\ \A name \in DomainMetricNames \ C27_Own(e.type) :
                    metrics'[name] = metrics[name]
              /\ e.type = 1 =>
                    /\ metrics'.blocks_reconstructed = metrics.blocks_reconstructed + 1
                    /\ metrics'.block_reconstruction_time.count =
                          metrics.block_reconstruction_time.count + 1
                    /\ metrics'.chunks_used.count = metrics.chunks_used.count + 1
                    /\ metrics'.chunks_used_total =
                          metrics.chunks_used_total + e.chunks_used
                    /\ metrics'.chunks_received =
                          metrics.chunks_received + e.chunks_recvd
              /\ e.type = 2 => metrics'.blocks_sent = metrics.blocks_sent + 1
              /\ e.type = 3 =>
                    /\ \E l \in DOMAIN metrics.block_deliveries :
                          metrics'.block_deliveries =
                              [ metrics.block_deliveries EXCEPT ![l] = @ + 1 ]
                    /\ metrics'.last_block_height = << e.height >>
              /\ e.type = 10 =>
                    /\ metrics'.blocks_connected = metrics.blocks_connected + 1
                    /\ metrics'.last_block_height = << e.height >>
    /\ ~IsRecordStep => DomainUnchanged
    /\ \A t, u \in DOMAIN EVENT_TYPE_NAMES :
          t # u => C27_Own(t) \cap C27_Own(u) \subseteq { "last_block_height" }
    /\ \A name \in C27_PlainCounters : metrics'[name] >= metrics[name]
    /\ \A l \in DOMAIN metrics.block_deliveries :
          metrics'.block_deliveries[l] >= metrics.block_deliveries[l]
    /\ \A l \in DOMAIN metrics.exporter_events_total :
          metrics'.exporter_events_total[l] >= metrics.exporter_events_total[l]
    /\ metrics'.exporter_errors_total["event_processing"] >=
          metrics.exporter_errors_total["event_processing"]

C27_OwnMetricsOnly == [][C27_FrameStep]_vars

C27_Witness ==
    /\ Len(polled) = 2
    /\ polled[1].type = 1
    /\ polled[1].chunks_used = 3
    /\ polled[1].chunks_recvd = 5
    /\ polled[2].type = 10
    /\ polled[2].duration_us > 0
    /\ metrics.chunks_used_total = 3
    /\ metrics.chunks_received = 5
    /\ metrics.blocks_connected = 1
    /\ metrics.block_connection_time.count = 1
    /\ metrics.blocks_sent = 0

====
